---- MODULE Spec2Model ----
(***************************************************************************)
(* Model of .sync/sync_files.py: a one-way, extension-filtered file        *)
(* synchronizer between an input tree and an output tree.                  *)
(*                                                                         *)
(* A name is a sequence of characters, a path is a sequence of names, so   *)
(* that str.endswith and the output-name transformation are computed on    *)
(* characters.  The filesystem is the pair (dirs, files): the set of       *)
(* directory paths and a function from file paths to contents.             *)
(***************************************************************************)
EXTENDS Integers, Sequences, FiniteSets, TLC

\* ---------------------------------------------------------------- bounds
MaxDepth == 3      \* deepest directory chain below a root
MaxContent == 2    \* file contents of the output tree are 1..MaxContent

\* ---------------------------------------------------------------- names
InRoot == <<"I">>
OutRoot == <<"O">>
Letters == <<"a", "b", "c", "d", "e", "f">>
AM == <<"a", ".", "m">>
AMB == <<"a", ".", "m", ".", "b">>
NT == <<"n", ".", "t">>
OT == <<"o", ".", "t">>
DotM == <<".", "m">>
DotB == <<".", "b">>
ExtB == <<"b">>
NoExt == <<>>

Absent == -2
IsDir == -1
Truncated == 0

VARIABLES
  dirs,               \* set of paths that are directories
  files,              \* function: path of a regular file -> content
  cfgOk,              \* whether the configuration file loads
  extensions,         \* config['file_extensions']
  output_extension,   \* config.get('output_extension', '')
  pc,                 \* position of main / sync_directories_recursive
  status,             \* "running", "success", "notfound", "configerror", "ioerror"
  common_structure,   \* result of get_common_directory_structure
  rootTodo,           \* names of common_structure[''] still to visit
  keyTodo,            \* keys of common_structure still to visit
  subTodo,            \* subdirs of the current key still to visit
  curKey,             \* the current rel_path of the second loop
  phase,              \* position inside sync_directory: idle, clean, copy, ret
  sInput, sOutput,    \* arguments of the running sync_directory call
  todo,               \* entries passing the running loop's filter, not reached yet
  pre,                \* files when the running sync_directory call started
  visited,            \* <<input_dir, output_dir>> of every sync_directory call of this run
  written,            \* <<source, destination>> of every write of this run
  deleted,            \* path of every deletion of this run
  run,                \* number of the current run of main
  files0, dirs0       \* the filesystem before the first run

vars == <<dirs, files, cfgOk, extensions, output_extension, pc, status,
          common_structure, rootTodo, keyTodo, subTodo, curKey, phase,
          sInput, sOutput, todo, pre, visited, written, deleted, run,
          files0, dirs0>>

\* ---------------------------------------------------------------- paths
input_base == <<InRoot>>
output_base == <<OutRoot>>

Last(p) == p[Len(p)]
Parent(p) == SubSeq(p, 1, Len(p) - 1)
EmptyMap == [x \in {} |-> {}]

exists(p) == p \in dirs \/ p \in DOMAIN files
is_file(p) == p \in DOMAIN files
iterdir(d) == {p \in dirs \cup DOMAIN files : Len(p) = Len(d) + 1 /\ Parent(p) = d}
SubdirNames(d) == {Last(p) : p \in {q \in dirs : Len(q) = Len(d) + 1 /\ Parent(q) = d}}
relpath(root, base) == SubSeq(root, Len(base) + 1, Len(root))

\* str.endswith
endswith(s, suffix) ==
  /\ Len(suffix) <= Len(s)
  /\ SubSeq(s, Len(s) - Len(suffix) + 1, Len(s)) = suffix

\* any(name.endswith(ext) for ext in extensions)
matches_any_mutant(name, exts) == TRUE
matches_any(name, exts) == \E i \in 1..Len(exts) : endswith(name, exts[i])

get_output_filename(filename, out_ext) ==
  IF out_ext # <<>> THEN filename \o <<".">> \o out_ext ELSE filename

\* ---------------------------------------------------------------- scanning
RECURSIVE walk(_)
walk(root) ==
  IF root \notin dirs THEN {}
  ELSE {root} \cup UNION {walk(Append(root, n)) : n \in SubdirNames(root)}

get_directory_structure(base_path) ==
  [rel \in {relpath(r, base_path) : r \in walk(base_path)} |-> SubdirNames(base_path \o rel)]

get_common_union(inp, out) ==
  LET input_structure == get_directory_structure(inp)
      output_structure == get_directory_structure(out)
      keys == {k \in DOMAIN input_structure :
                 /\ k \in DOMAIN output_structure
                 /\ input_structure[k] \cup output_structure[k] # {}}
  IN [k \in keys |-> input_structure[k] \cup output_structure[k]]

get_common_keep_empty(inp, out) ==
  LET input_structure == get_directory_structure(inp)
      output_structure == get_directory_structure(out)
      keys == {k \in DOMAIN input_structure : k \in DOMAIN output_structure}
  IN [k \in keys |-> input_structure[k] \cap output_structure[k]]

get_common_directory_structure(inp, out) ==
  LET input_structure == get_directory_structure(inp)
      output_structure == get_directory_structure(out)
      keys == {k \in DOMAIN input_structure :
                 /\ k \in DOMAIN output_structure
                 /\ input_structure[k] \cap output_structure[k] # {}}
  IN [k \in keys |-> input_structure[k] \cap output_structure[k]]

\* ---------------------------------------------------------------- file operations
unlink(fs, p) == [q \in DOMAIN fs \ {p} |-> fs[q]]
write(fs, p, c) == [q \in DOMAIN fs \cup {p} |-> IF q = p THEN c ELSE fs[q]]

copy_file_content_mutant(fs, source_file, dest_file) == fs
copy_file_content(fs, source_file, dest_file) ==
  IF fs[source_file] # fs[dest_file] THEN write(fs, dest_file, fs[source_file]) ELSE fs

\* the call clean_directory_smart(output_dir, input_dir, extensions):
\* <<directory, reference_dir>>
CleanArgsSwapped(input_dir, output_dir) == <<input_dir, output_dir>>
CleanArgs(input_dir, output_dir) == <<output_dir, input_dir>>

ShouldDeleteNever(item, reference_dir) == FALSE
ShouldDelete(item, reference_dir) ==
  /\ is_file(item)
  /\ matches_any(Last(item), extensions)
  /\ ~exists(Append(reference_dir, Last(item)))

ShouldCopy(file) == is_file(file) /\ matches_any(Last(file), extensions)

\* the entries of a directory that pass the filter both loops apply:
\* item.is_file() and any(item.name.endswith(ext) for ext in extensions)
Candidates(d) == {item \in iterdir(d) : is_file(item) /\ matches_any(Last(item), extensions)}
OutputPath(file) == Append(sOutput, get_output_filename(Last(file), output_extension))

\* ---------------------------------------------------------------- initial trees
Chain(k) == [i \in 1..k |-> <<Letters[i]>>]
RootKinds == {"missing", "file", "dir"}
InPatterns ==
  {(AM :> x) @@ (AMB :> y) @@ (NT :> 1) : x \in {Absent, IsDir, 1}, y \in {Absent, 2}}
OutPatterns ==
  {(AM :> x) @@ (AMB :> y) @@ (OT :> 1) :
     x \in {Absent, IsDir} \cup 1..MaxContent, y \in {Absent} \cup 1..MaxContent}
ExtLists == {<<DotM>>, <<DotM, DotB>>}
OutExts == {NoExt, ExtB}

ChainDirs(root, depth) == {<<root>> \o Chain(k) : k \in 0..depth}
TreeDirs(root, kind, depth, pat) ==
  IF kind # "dir" THEN {}
  ELSE ChainDirs(root, depth)
       \cup {Append(c, n) : c \in ChainDirs(root, depth), n \in {m \in DOMAIN pat : pat[m] = IsDir}}
TreeFiles(root, kind, depth, pat) ==
  IF kind = "missing" THEN EmptyMap
  ELSE IF kind = "file" THEN (<<root>> :> 1)
  ELSE [p \in {Append(c, n) : c \in ChainDirs(root, depth),
                              n \in {m \in DOMAIN pat : pat[m] >= 0}} |-> pat[Last(p)]]

DefaultIn == (AM :> Absent) @@ (AMB :> Absent) @@ (NT :> 1)
DefaultOut == (AM :> Absent) @@ (AMB :> Absent) @@ (OT :> 1)

Init ==
  \E ik \in RootKinds, ok \in RootKinds, id \in 0..MaxDepth, od \in 0..MaxDepth,
     ip \in InPatterns, op \in OutPatterns, el \in ExtLists, oe \in OutExts, c \in BOOLEAN :
    /\ ik # "dir" => (id = 0 /\ ip = DefaultIn)
    /\ ok # "dir" => (od = 0 /\ op = DefaultOut)
    /\ ~c => (el = <<DotM>> /\ oe = NoExt)
    /\ dirs = TreeDirs(InRoot, ik, id, ip) \cup TreeDirs(OutRoot, ok, od, op)
    /\ files = TreeFiles(InRoot, ik, id, ip) @@ TreeFiles(OutRoot, ok, od, op)
    /\ files0 = files
    /\ dirs0 = dirs
    /\ cfgOk = c
    /\ extensions = el
    /\ output_extension = oe
    /\ pc = "validate"
    /\ status = "running"
    /\ common_structure = EmptyMap
    /\ rootTodo = {}
    /\ keyTodo = {}
    /\ subTodo = {}
    /\ curKey = <<>>
    /\ phase = "idle"
    /\ sInput = <<>>
    /\ sOutput = <<>>
    /\ todo = {}
    /\ pre = EmptyMap
    /\ visited = {}
    /\ written = {}
    /\ deleted = {}
    /\ run = 1

\* ---------------------------------------------------------------- main
fsVars == <<dirs, files, files0, dirs0>>
cfgVars == <<cfgOk, extensions, output_extension>>
loopVars == <<rootTodo, keyTodo, subTodo, curKey>>
callVars == <<phase, sInput, sOutput, todo, pre>>
logVars == <<visited, written, deleted>>

PathsValidMutant == TRUE
PathsValid == exists(input_base) /\ exists(output_base)

Validate ==
  /\ pc = "validate"
  /\ IF PathsValid
       THEN pc' = "load" /\ status' = status
       ELSE pc' = "done" /\ status' = "notfound"
  /\ UNCHANGED <<fsVars, cfgVars, common_structure, loopVars, callVars, logVars, run>>

LoadConfig ==
  /\ pc = "load"
  /\ IF cfgOk
       THEN pc' = "scan" /\ status' = status
       ELSE pc' = "done" /\ status' = "configerror"
  /\ UNCHANGED <<fsVars, cfgVars, common_structure, loopVars, callVars, logVars, run>>

\* the keys the second loop of sync_directories_recursive does not skip
OtherKeysOneSegment(cs) == {k \in DOMAIN cs : Len(k) = 1}
OtherKeys(cs) == {k \in DOMAIN cs : k # <<>>}

Scan ==
  /\ pc = "scan"
  /\ LET cs == get_common_directory_structure(input_base, output_base) IN
       /\ common_structure' = cs
       /\ rootTodo' = IF <<>> \in DOMAIN cs THEN cs[<<>>] ELSE {}
       /\ keyTodo' = OtherKeys(cs)
  /\ pc' = "level0"
  /\ UNCHANGED <<fsVars, cfgVars, status, subTodo, curKey, callVars, logVars, run>>

\* entry of sync_directory(input_dir, output_dir, ...): the clean loop's iterdir
BeginSync(input_dir, output_dir, nextpc) ==
  LET directory == CleanArgs(input_dir, output_dir)[1] IN
    /\ visited' = visited \cup {<<input_dir, output_dir>>}
    /\ IF directory \in dirs
         THEN /\ phase' = "clean"
              /\ sInput' = input_dir
              /\ sOutput' = output_dir
              /\ todo' = Candidates(directory)
              /\ pre' = files
              /\ pc' = nextpc
              /\ status' = status
         ELSE /\ pc' = "done"
              /\ status' = "ioerror"
              /\ UNCHANGED callVars

Level0Next ==
  /\ pc = "level0" /\ phase = "idle"
  /\ \E dir_name \in rootTodo :
       /\ rootTodo' = rootTodo \ {dir_name}
       /\ BeginSync(Append(input_base, dir_name), Append(output_base, dir_name), "level0")
  /\ UNCHANGED <<fsVars, cfgVars, common_structure, keyTodo, subTodo, curKey,
                 written, deleted, run>>

Level0Done ==
  /\ pc = "level0" /\ phase = "idle" /\ rootTodo = {}
  /\ pc' = "keys"
  /\ UNCHANGED <<fsVars, cfgVars, status, common_structure, loopVars, callVars, logVars, run>>

KeysNext ==
  /\ pc = "keys" /\ phase = "idle"
  /\ \E rel_path \in keyTodo :
       /\ \A k \in keyTodo : ~(Len(k) < Len(rel_path) /\ SubSeq(rel_path, 1, Len(k)) = k)
       /\ keyTodo' = keyTodo \ {rel_path}
       /\ curKey' = rel_path
       /\ subTodo' = common_structure[rel_path]
       /\ BeginSync(input_base \o rel_path, output_base \o rel_path, "subdirs")
  /\ UNCHANGED <<fsVars, cfgVars, common_structure, rootTodo, written, deleted, run>>

SubdirNext ==
  /\ pc = "subdirs" /\ phase = "idle"
  /\ \E subdir \in subTodo :
       LET input_subdir == Append(input_base \o curKey, subdir)
           output_subdir == Append(output_base \o curKey, subdir)
       IN /\ subTodo' = subTodo \ {subdir}
          /\ IF exists(input_subdir) /\ exists(output_subdir)
               THEN BeginSync(input_subdir, output_subdir, "subdirs")
               ELSE UNCHANGED <<pc, status, callVars, visited>>
  /\ UNCHANGED <<fsVars, cfgVars, common_structure, rootTodo, keyTodo, curKey,
                 written, deleted, run>>

SubdirsDone ==
  /\ pc = "subdirs" /\ phase = "idle" /\ subTodo = {}
  /\ pc' = "keys"
  /\ UNCHANGED <<fsVars, cfgVars, status, common_structure, loopVars, callVars, logVars, run>>

Finish ==
  /\ pc = "keys" /\ phase = "idle" /\ keyTodo = {}
  /\ pc' = "done"
  /\ status' = "success"
  /\ UNCHANGED <<fsVars, cfgVars, common_structure, loopVars, callVars, logVars, run>>

\* ---------------------------------------------------------------- sync_directory
CleanStep ==
  /\ phase = "clean"
  /\ \E item \in todo :
       LET reference_dir == CleanArgs(sInput, sOutput)[2] IN
         /\ todo' = todo \ {item}
         /\ IF ShouldDelete(item, reference_dir)
              THEN files' = unlink(files, item) /\ deleted' = deleted \cup {item}
              ELSE UNCHANGED <<files, deleted>>
  /\ UNCHANGED <<dirs, files0, dirs0, cfgVars, pc, status, common_structure, loopVars,
                 phase, sInput, sOutput, pre, visited, written, run>>

\* item.unlink() raises
CleanFail ==
  /\ phase = "clean"
  /\ \E item \in todo : ShouldDelete(item, CleanArgs(sInput, sOutput)[2])
  /\ status' = "ioerror"
  /\ pc' = "done"
  /\ phase' = "idle"
  /\ UNCHANGED <<fsVars, cfgVars, common_structure, loopVars, sInput, sOutput, todo, pre,
                 logVars, run>>

CleanDone ==
  /\ phase = "clean" /\ todo = {}
  /\ IF sInput \in dirs
       THEN phase' = "copy" /\ todo' = Candidates(sInput) /\ UNCHANGED <<pc, status>>
       ELSE pc' = "done" /\ status' = "ioerror" /\ phase' = "idle" /\ UNCHANGED todo
  /\ UNCHANGED <<fsVars, cfgVars, common_structure, loopVars, sInput, sOutput, pre,
                 logVars, run>>

CopyStep ==
  /\ phase = "copy"
  /\ \E file \in todo :
       /\ todo' = todo \ {file}
       /\ IF ~ShouldCopy(file)
            THEN UNCHANGED <<files, written, pc, status, phase>>
            ELSE LET output_path == OutputPath(file) IN
              IF output_path \in dirs
                THEN \* open() of a directory raises
                     /\ pc' = "done" /\ status' = "ioerror" /\ phase' = "idle"
                     /\ UNCHANGED <<files, written>>
              ELSE IF exists(output_path)
                THEN /\ files' = copy_file_content(files, file, output_path)
                     /\ written' = IF files' # files
                                     THEN written \cup {<<file, output_path>>}
                                     ELSE written
                     /\ UNCHANGED <<pc, status, phase>>
                ELSE /\ files' = write(files, output_path, files[file])
                     /\ written' = written \cup {<<file, output_path>>}
                     /\ UNCHANGED <<pc, status, phase>>
  /\ UNCHANGED <<dirs, files0, dirs0, cfgVars, common_structure, loopVars,
                 sInput, sOutput, pre, visited, deleted, run>>

\* the failure logged and the loop continued
CopyFailSwallowed(file) ==
  /\ status' = "ioerror"
  /\ todo' = todo \ {file}
  /\ UNCHANGED <<fsVars, cfgVars, pc, common_structure, loopVars, phase, sInput, sOutput,
                 pre, logVars, run>>

\* a read or a write of copy_file_content / shutil.copy2 raises; a write that
\* fails after the destination was opened for writing leaves it truncated
CopyFailAt(file) ==
  /\ status' = "ioerror"
  /\ pc' = "done"
  /\ phase' = "idle"
  /\ \/ UNCHANGED <<files, written>>
     \/ /\ OutputPath(file) \notin dirs
        /\ OutputPath(file) \in DOMAIN files => files[OutputPath(file)] # files[file]
        /\ files' = write(files, OutputPath(file), Truncated)
        /\ written' = written \cup {<<file, OutputPath(file)>>}
  /\ UNCHANGED <<dirs, files0, dirs0, cfgVars, common_structure, loopVars,
                 sInput, sOutput, todo, pre, visited, deleted, run>>

CopyFail ==
  /\ phase = "copy"
  /\ \E file \in todo : ShouldCopy(file) /\ CopyFailAt(file)

CopyDone ==
  /\ phase = "copy" /\ todo = {}
  /\ phase' = "ret"
  /\ UNCHANGED <<fsVars, cfgVars, pc, status, common_structure, loopVars,
                 sInput, sOutput, todo, pre, logVars, run>>

Return ==
  /\ phase = "ret"
  /\ phase' = "idle"
  /\ sInput' = <<>>
  /\ sOutput' = <<>>
  /\ pre' = EmptyMap
  /\ UNCHANGED <<fsVars, cfgVars, pc, status, common_structure, loopVars, todo, logVars, run>>

\* the tool is run again on the trees the previous run left
Rerun ==
  /\ pc = "done" /\ status = "success" /\ run = 1
  /\ run' = run + 1
  /\ pc' = "validate"
  /\ status' = "running"
  /\ common_structure' = EmptyMap
  /\ curKey' = <<>>
  /\ visited' = {}
  /\ written' = {}
  /\ deleted' = {}
  /\ UNCHANGED <<fsVars, cfgVars, rootTodo, keyTodo, subTodo, callVars>>

Next ==
  \/ Validate \/ LoadConfig \/ Scan
  \/ Level0Next \/ Level0Done \/ KeysNext \/ SubdirNext \/ SubdirsDone \/ Finish
  \/ CleanStep \/ CleanFail \/ CleanDone
  \/ CopyStep \/ CopyFail \/ CopyDone \/ Return
  \/ Rerun

Spec == Init /\ [][Next]_vars

\* ---------------------------------------------------------------- properties
InTree(p) == Len(p) >= 1 /\ p[1] = InRoot
OutTree(p) == Len(p) >= 1 /\ p[1] = OutRoot
Scanned == pc \in {"level0", "keys", "subdirs"} \/ (pc = "done" /\ status \in {"success", "ioerror"})
HasConfiguredSuffix(name) == \E i \in 1..Len(extensions) : endswith(name, extensions[i])
TransformedName(name) ==
  IF output_extension = <<>> THEN name ELSE name \o <<".">> \o output_extension
KidsOf(base, k) == {Last(q) : q \in {d \in dirs : Len(d) = Len(base) + Len(k) + 1 /\ Parent(d) = base \o k}}
CommonDirs == {d \in dirs : InTree(d) /\ Len(d) >= 2 /\ (output_base \o relpath(d, input_base)) \in dirs}

\* C1: a second run of main right after a successful first run, with no outside
\* change in between, writes no file and deletes no file.
IdempotentSecondRun == run = 2 => (written = {} /\ deleted = {})

\* C2: when a sync_directory call returns, every file directly in its input
\* directory whose name ends with a configured extension has, directly in its
\* output directory, a file of the transformed name with the same bytes.
SyncCopiesEveryMatchingFile ==
  phase = "ret" =>
    \A f \in DOMAIN files :
      (Len(f) = Len(sInput) + 1 /\ Parent(f) = sInput /\ HasConfiguredSuffix(Last(f)))
        => LET dst == Append(sOutput, TransformedName(Last(f)))
           IN dst \in DOMAIN files /\ files[dst] = files[f]

\* C2 witness: a call with an output extension returns having overwritten one
\* destination whose content differed and created another that was absent.
SyncCopiedAndOverwrote ==
  /\ phase = "ret"
  /\ output_extension # <<>>
  /\ \E w \in written : Parent(w[1]) = sInput /\ w[2] \in DOMAIN pre /\ pre[w[2]] # files[w[2]]
  /\ \E w \in written : Parent(w[1]) = sInput /\ w[2] \notin DOMAIN pre

\* C3 as stated: when a sync_directory call returns, no file that was directly in
\* the output directory before the call, ends with a configured extension and
\* has no file of the same name directly in the input directory, exists.
OrphanGoneAfterSync ==
  phase = "ret" =>
    \A f \in DOMAIN pre :
      (/\ Len(f) = Len(sOutput) + 1 /\ Parent(f) = sOutput
       /\ HasConfiguredSuffix(Last(f))
       /\ Append(sInput, Last(f)) \notin DOMAIN files)
        => f \notin DOMAIN files

OrphanCase(f) ==
  /\ Len(f) = Len(sOutput) + 1 /\ Parent(f) = sOutput
  /\ HasConfiguredSuffix(Last(f))
  /\ Append(sInput, Last(f)) \notin DOMAIN files
  /\ Append(sInput, Last(f)) \notin dirs
  /\ ~\E g \in DOMAIN files :
        /\ Len(g) = Len(sInput) + 1 /\ Parent(g) = sInput
        /\ HasConfiguredSuffix(Last(g))
        /\ TransformedName(Last(g)) = Last(f)

\* C3 amended: when a sync_directory call returns, no file that was directly in
\* the output directory before the call, ends with a configured extension, has
\* no entry (file or directory) of the same name directly in the input directory
\* and is not the transformed name of a matching input file, exists.
OrphanGoneUnlessRecreated ==
  phase = "ret" => \A f \in DOMAIN pre : OrphanCase(f) => f \notin DOMAIN files

\* C3 witness: a call returns after its output directory held such a file.
OrphanWasPresent == phase = "ret" /\ \E f \in DOMAIN pre : OrphanCase(f)

\* C4: every file a run copies has a name ending with a configured extension,
\* and so has every file it deletes; an output file whose name ends with none
\* is still there.
OnlyMatchingFilesTouched ==
  /\ \A w \in written : HasConfiguredSuffix(Last(w[1]))
  /\ \A p \in deleted : HasConfiguredSuffix(Last(p))
  /\ \A p \in DOMAIN files0 : (OutTree(p) /\ ~HasConfiguredSuffix(Last(p))) => p \in DOMAIN files

\* C4 witness: a run that copied and deleted ends, and a directory pair it
\* synchronized holds a non-matching input file and a non-matching output file
\* with no input counterpart.
NonMatchingFilesInSyncedPair ==
  /\ status = "success" /\ written # {} /\ deleted # {}
  /\ \E v \in visited :
       /\ \E f \in DOMAIN files : Parent(f) = v[1] /\ ~HasConfiguredSuffix(Last(f))
       /\ \E f \in DOMAIN files :
            /\ Parent(f) = v[2] /\ ~HasConfiguredSuffix(Last(f))
            /\ ~exists(Append(v[1], Last(f)))

\* C5: every name in a set of the common structure is a subdirectory of that
\* path in both trees, and sync_directory is only called on a pair of
\* directories that exist at the same relative path in both trees.
AsymmetricNeverSynced ==
  /\ \A k \in DOMAIN common_structure : \A n \in common_structure[k] :
       Append(input_base \o k, n) \in dirs /\ Append(output_base \o k, n) \in dirs
  /\ \A v \in visited :
       /\ v[1] \in dirs /\ v[2] \in dirs
       /\ InTree(v[1]) /\ OutTree(v[2])
       /\ relpath(v[1], input_base) = relpath(v[2], output_base)

\* C5 witness: a run ends after synchronizing, and a key of the common
\* structure has a subdirectory in one tree only.
AsymmetricDirPresent ==
  /\ status = "success" /\ visited # {}
  /\ \E k \in DOMAIN common_structure :
       KidsOf(input_base, k) # KidsOf(output_base, k)

\* C6 as stated: sync_directory is only called on directories at most two
\* segments below the roots, and no file three or more segments below a root
\* is created, changed or deleted.
AtMostTwoLevels ==
  /\ \A v \in visited : Len(relpath(v[1], input_base)) <= 2
  /\ \A p \in DOMAIN files0 \cup DOMAIN files :
       Len(p) >= 5 => (p \in DOMAIN files0 /\ p \in DOMAIN files /\ files[p] = files0[p])

\* C6 amended: sync_directory is never called on the roots, and a run that ends
\* successfully has called it on every directory, at any depth of one or more,
\* that exists at the same relative path in both trees.
EveryCommonDirSynced ==
  /\ \A v \in visited : Len(v[1]) >= 2 /\ Len(v[2]) >= 2
  /\ status = "success" => {v[1] : v \in visited} = CommonDirs

\* C6 witness: a successful run wrote a file three segments below the output root.
DeepDirSynced ==
  /\ status = "success"
  /\ \E w \in written : Len(relpath(Parent(w[2]), output_base)) >= 3

\* C7: the common structure's keys are the relative paths that are directories
\* in both trees and whose subdirectory-name sets intersect; each maps to that
\* intersection.
CommonStructureIsIntersection ==
  Scanned =>
    LET keys == {k \in {relpath(d, input_base) : d \in {e \in dirs : InTree(e)}} :
                   /\ (output_base \o k) \in dirs
                   /\ KidsOf(input_base, k) \cap KidsOf(output_base, k) # {}}
    IN /\ DOMAIN common_structure = keys
       /\ \A k \in keys :
            /\ common_structure[k] = KidsOf(input_base, k) \cap KidsOf(output_base, k)
            /\ common_structure[k] # {}
            /\ (input_base \o k) \in dirs

\* C7 witness: after the scan, a directory of both trees is no key and a key's
\* set is a proper part of the input directory's subdirectories.
CommonStructureDropsAndNarrows ==
  /\ Scanned
  /\ \E d \in CommonDirs : relpath(d, input_base) \notin DOMAIN common_structure
  /\ \E k \in DOMAIN common_structure : common_structure[k] # KidsOf(input_base, k)

\* C8 as stated: with a root that is missing or not a directory, the run never
\* completes successfully and changes no file.
BadRootNeverSucceeds ==
  (input_base \notin dirs \/ output_base \notin dirs) =>
    (status # "success" /\ files = files0)

\* C8 amended: with a missing root the run stops at validation with a not-found
\* error, before any scan; with roots that exist but are not both directories
\* it changes nothing and, its configuration loading, ends successfully.
MissingRootFailsAtValidation ==
  /\ (~exists(input_base) \/ ~exists(output_base)) =>
       /\ pc \in {"validate", "done"}
       /\ status \in {"running", "notfound"}
       /\ pc = "done" => status = "notfound"
       /\ common_structure = EmptyMap /\ visited = {}
       /\ files = files0 /\ dirs = dirs0
  /\ (exists(input_base) /\ exists(output_base)
        /\ (input_base \notin dirs \/ output_base \notin dirs)) =>
       /\ status \in {"running", "success", "configerror"}
       /\ (pc = "done" /\ cfgOk) => status = "success"
       /\ common_structure = EmptyMap /\ visited = {}
       /\ files = files0 /\ dirs = dirs0

\* C8 witness: a run ended not-found while the other root is a directory.
MissingRootRejected ==
  /\ pc = "done" /\ status = "notfound"
  /\ (input_base \in dirs \/ output_base \in dirs)

\* C9: once a file operation has failed, no file is created, changed or
\* deleted any more and the run stays failed.
IOErrorAbortsRun ==
  [][status = "ioerror" =>
       (files' = files /\ dirs' = dirs /\ status' = "ioerror" /\ pc' = "done")]_vars

\* C9 witness: an operation failed while further files of the directory pair
\* and further directory pairs were still to be processed.
FailedWithWorkLeft ==
  /\ status = "ioerror"
  /\ Cardinality(todo) >= 2
  /\ keyTodo # {}

\* C10: no file or directory of the input tree is created, changed or
\* deleted, and every write and deletion targets the output tree.
InputTreeUntouched ==
  /\ \A p \in DOMAIN files0 \cup DOMAIN files :
       InTree(p) => (p \in DOMAIN files0 /\ p \in DOMAIN files /\ files[p] = files0[p])
  /\ {d \in dirs : InTree(d)} = {d \in dirs0 : InTree(d)}
  /\ \A w \in written : OutTree(w[2])
  /\ \A p \in deleted : OutTree(p)

\* C10 witness: a run deleted an output file and wrote another while the input
\* tree holds matching files.
OutputChangedBesideInput ==
  /\ pc = "done"
  /\ written # {} /\ deleted # {}
  /\ \E p \in DOMAIN files : InTree(p) /\ HasConfiguredSuffix(Last(p))
====
